---- MODULE Spec2Model ----
(***************************************************************************)
(* State-machine model of the news monitor (src/app.py): the keyword       *)
(* widgets, the "Get News" handler of main() with its keyword loop, its    *)
(* article loop and the dedup step, search_naver_news and                  *)
(* get_summary_and_category.                                               *)
(*                                                                         *)
(* Text is modelled as a sequence of chunks.  A keyword is a sequence of   *)
(* characters (the Korean default keywords are written one romanised       *)
(* syllable per character).  A model reply is a sequence of chunks in      *)
(* which the markers "Category:" and "Synopsis:", the line break and the   *)
(* blank are chunks of their own; every other chunk is marker-free text.   *)
(***************************************************************************)
EXTENDS Naturals, Integers, Sequences, FiniteSets, TLC

VARIABLES
    pc,                 \* position of the script run in main()
    selected,           \* value of the multiselect widget (line 112)
    custom_keyword,     \* value of the text input (line 119)
    keywords,           \* the keyword list of the run (lines 112-121)
    i,                  \* number of completed iterations of the current loop
    response,           \* outcome of the latest requests.get (line 37), kept
                        \* until main moves past the keyword loop
    all_articles,       \* line 134
    processed_articles, \* line 142
    reply,              \* outcome of the latest ChatCompletion.create
                        \* (line 75), kept until main moves past the article loop
    df,                 \* the DataFrame (lines 158-159)
    progress,           \* calls of progress_bar.progress, in call order
    search_log,         \* keywords for which requests.get was called
    classify_log,       \* titles for which ChatCompletion.create was called
    fetch_failed,       \* keyword positions whose requests.get raised
    classify_failed,    \* article positions whose classification hit the except
    aborted             \* an exception escaped main()

vars == <<pc, selected, custom_keyword, keywords, i, response, all_articles,
          processed_articles, reply, df, progress, search_log, classify_log,
          fetch_failed, classify_failed, aborted>>

(***************************************************************************)
(* Bounds                                                                  *)
(***************************************************************************)
MaxSelected == 1     \* longest multiselect value
MaxCustomLen == 1    \* longest custom keyword, in characters
MaxItems == 2        \* most .news_area containers on a page of a run
MaxArticles == 3     \* most articles accumulated in a run
MaxPageLen == 3      \* most containers on a page given to the extractor alone
MaxReplyLen == 3     \* longest generated model reply, in chunks

(***************************************************************************)
(* Text helpers                                                            *)
(***************************************************************************)
SP == " "
NL == "\n"
Whitespace == {SP, NL}

\* str.strip(): drops leading and trailing whitespace
RECURSIVE lstrip(_)
lstrip(s) ==
    IF s # <<>> /\ Head(s) \in Whitespace THEN lstrip(Tail(s)) ELSE s

RECURSIVE rstrip(_)
rstrip(s) ==
    IF s # <<>> /\ s[Len(s)] \in Whitespace
    THEN rstrip(SubSeq(s, 1, Len(s) - 1))
    ELSE s

strip(s) == rstrip(lstrip(s))

\* position of the first occurrence of chunk sep in s at or after from, 0 if none
RECURSIVE find(_, _, _)
find(s, sep, from) ==
    IF from > Len(s) THEN 0
    ELSE IF s[from] = sep THEN from
    ELSE find(s, sep, from + 1)

\* str.split(sep): the list of the pieces of s between occurrences of sep
RECURSIVE split(_, _)
split(s, sep) ==
    LET p == find(s, sep, 1) IN
    IF p = 0 THEN <<s>>
    ELSE <<SubSeq(s, 1, p - 1)>> \o split(SubSeq(s, p + 1, Len(s)), sep)

\* all sequences over S of length at most n
RECURSIVE SeqsUpTo(_, _)
SeqsUpTo(S, n) ==
    IF n = 0 THEN {<<>>}
    ELSE LET shorter == SeqsUpTo(S, n - 1) IN
         shorter \cup {Append(s, x) : s \in {t \in shorter : Len(t) = n - 1}, x \in S}

\* the result of a call: a value, or an exception that reaches the caller
Return(v) == [raised |-> FALSE, value |-> v]
Raise == [raised |-> TRUE, value |-> <<>>]

(***************************************************************************)
(* search_naver_news (lines 26-59)                                         *)
(***************************************************************************)
\* select_one() found no node
None == "<None>"

\* node.text: AttributeError when select_one() returned None
text(node) == IF node = None THEN Raise ELSE Return(node)

\* lines 45-48: the byline, "N/A" when the lookup raises
journalist_of(item) ==
    LET t == text(item.journalist) IN
    IF t.raised THEN "N/A" ELSE t.value

\* lines 41-56: the loop over soup.select('.news_area'); the first container
\* without a title or media node raises out of the loop
RECURSIVE extract_items(_, _, _)
extract_items(items, keyword, articles) ==
    IF items = <<>> THEN Return(articles)
    ELSE LET item == Head(items)
             title == text(item.news_tit)
             media == text(item.info_a)
         IN  IF title.raised THEN Raise
             ELSE IF media.raised THEN Raise
             ELSE extract_items(Tail(items), keyword,
                      Append(articles, [title |-> title.value,
                                        media |-> media.value,
                                        journalist |-> journalist_of(item),
                                        keyword |-> keyword]))

\* lines 28-56: the body of the try block; requests.get raises on a
\* transport error
search_body(keyword, resp) ==
    IF resp.error THEN Raise
    ELSE extract_items(resp.items, keyword, <<>>)

\* variant: the transport error of requests.get is not caught
search_naver_news_uncaught(keyword, resp) ==
    LET r == search_body(keyword, resp) IN
    IF r.raised /\ ~resp.error THEN Return(<<>>) ELSE r

\* lines 26-59: every exception of the body becomes the empty list
search_naver_news(keyword, resp) ==
    LET r == search_body(keyword, resp) IN
    IF r.raised THEN Return(<<>>) ELSE r

(***************************************************************************)
(* get_summary_and_category (lines 61-87)                                  *)
(***************************************************************************)
CategoryMarker == "Category:"
SynopsisMarker == "Synopsis:"
ErrorCategory == <<"N/A">>
ErrorSynopsis == <<"Error generating synopsis">>

\* lines 63-84: the body of the try block; ChatCompletion.create raises on a
\* transport error, [1] raises IndexError when the marker is absent
summary_body(title, rep) ==
    IF rep.error THEN Raise
    ELSE LET result == rep.content
             byCategory == split(result, CategoryMarker)
             bySynopsis == split(result, SynopsisMarker)
         IN  IF Len(byCategory) < 2 THEN Raise
             ELSE IF Len(bySynopsis) < 2 THEN Raise
             ELSE Return(<<strip(split(byCategory[2], NL)[1]),
                           strip(bySynopsis[2])>>)

\* variant: a reply without the Synopsis: marker keeps its parsed category
get_summary_and_category_partial(title, rep) ==
    LET r == summary_body(title, rep) IN
    IF ~r.raised THEN r
    ELSE IF ~rep.error /\ Len(split(rep.content, CategoryMarker)) >= 2
         THEN Return(<<strip(split(split(rep.content, CategoryMarker)[2], NL)[1]),
                       ErrorSynopsis>>)
         ELSE Return(<<ErrorCategory, ErrorSynopsis>>)

\* variant: the failure of the model call is not caught
get_summary_and_category_uncaught(title, rep) ==
    LET r == summary_body(title, rep) IN
    IF r.raised /\ ~rep.error THEN Return(<<ErrorCategory, ErrorSynopsis>>) ELSE r

\* lines 61-87: every exception of the body becomes the placeholder pair
get_summary_and_category(title, rep) ==
    LET r == summary_body(title, rep) IN
    IF r.raised THEN Return(<<ErrorCategory, ErrorSynopsis>>) ELSE r

(***************************************************************************)
(* DataFrame.drop_duplicates(subset=['Synopsis']) (line 159)               *)
(***************************************************************************)
\* variant: keep='last'
duplicated_keep_last(rows, k) ==
    \E m \in (k + 1)..Len(rows) : rows[m].Synopsis = rows[k].Synopsis

\* variant: no subset, rows compared on all columns
duplicated_all_columns(rows, k) ==
    \E m \in 1..(k - 1) : rows[m] = rows[k]

\* variant: rows removed while iterating, the row after a removed one is
\* never looked at
RECURSIVE duplicated_skip_next(_, _)
duplicated_skip_next(rows, k) ==
    /\ \E m \in 1..(k - 1) : rows[m].Synopsis = rows[k].Synopsis
    /\ ~(k > 1 /\ duplicated_skip_next(rows, k - 1))

\* DataFrame.duplicated(keep='first'): a row is a duplicate when an earlier
\* row has the same Synopsis
duplicated(rows, k) ==
    \E m \in 1..(k - 1) : rows[m].Synopsis = rows[k].Synopsis

RECURSIVE keep_rows(_, _)
keep_rows(rows, k) ==
    IF k > Len(rows) THEN <<>>
    ELSE (IF duplicated(rows, k) THEN <<>> ELSE <<rows[k]>>)
         \o keep_rows(rows, k + 1)

drop_duplicates(rows) ==
    IF rows = <<>> THEN rows ELSE keep_rows(rows, 1)

(***************************************************************************)
(* Inputs                                                                  *)
(***************************************************************************)
\* lines 106-110, one romanised syllable per Korean character
default_keywords ==
    << <<"C", "I", "P">>,
       <<"han", "jeon">>,
       <<"jeon", "gi", "wi", "won", "hoe">>,
       <<"hae", "sang", "pung", "ryeok">>,
       <<"jeon", "nam", "hae", "sang", "pung", "ryeok">>,
       <<"cheong", "jeong", "su", "so">>,
       <<"am", "mo", "ni", "a">> >>

\* values of the multiselect: the first k options, as its default (line 115)
Selections == {SubSeq(default_keywords, 1, k) : k \in 0..MaxSelected}

\* values of the text input
CustomChars == {SP, "x"}
CustomKeywords == SeqsUpTo(CustomChars, MaxCustomLen)

\* a .news_area container: the text of each looked-up node, None when absent
Containers ==
    [news_tit : {None, "A", "B"}, info_a : {None, "M1", "M2"},
     journalist : {None, "J1"}]

RunContainers ==
    { [news_tit |-> "A", info_a |-> "M1", journalist |-> "J1"],
      [news_tit |-> "B", info_a |-> "M2", journalist |-> None],
      [news_tit |-> None, info_a |-> "M1", journalist |-> "J1"] }

TransportError == [error |-> TRUE, items |-> <<>>]
Page(items) == [error |-> FALSE, items |-> items]

\* outcomes of requests.get during a run / for the extractor alone
RunResponses == {TransportError} \cup {Page(p) : p \in SeqsUpTo(RunContainers, MaxItems)}
AllResponses == {TransportError} \cup {Page(p) : p \in SeqsUpTo(Containers, MaxPageLen)}

ModelFailure == [error |-> TRUE, content |-> <<>>]
Content(c) == [error |-> FALSE, content |-> c]

\* replies in the requested format, one of them echoing the placeholder text
FormattedReplies ==
    { <<CategoryMarker, SP, "CIP", NL, SynopsisMarker, SP, "Same summary.", NL>>,
      <<CategoryMarker, SP, "Govt policy", NL, SynopsisMarker, SP, "Error generating synopsis">> }

\* replies off the format
MalformedReplies ==
    { <<CategoryMarker, SP, "CIP", NL, "Same summary.">>,
      <<"CIP", NL, SynopsisMarker, SP, "Same summary.">> }

ReplyChunks == {CategoryMarker, SynopsisMarker, NL, SP, "CIP"}

\* outcomes of ChatCompletion.create during a run: the call fails, a
\* formatted reply, a reply without the Synopsis: marker
RunReplies ==
    {ModelFailure} \cup {Content(c) : c \in FormattedReplies}
        \cup {Content(<<CategoryMarker, SP, "CIP", NL, "Same summary.">>)}

\* outcomes of ChatCompletion.create for the classifier alone
AllReplies ==
    RunReplies \cup {Content(c) : c \in MalformedReplies}
        \cup {Content(c) : c \in SeqsUpTo(ReplyChunks, MaxReplyLen)}

(***************************************************************************)
(* main (lines 89-195)                                                     *)
(***************************************************************************)
NoResponse == Page(<<>>)
NoReply == Content(<<>>)

\* variant: i instead of i + 1
Fraction_zero_based(done, total) == [num |-> done, den |-> total]

\* the argument of progress_bar.progress, kept as the exact quotient num/den
Fraction(done, total) == [num |-> done + 1, den |-> total]

\* lines 136/146 with 139/155: the status label names the phase
ProgressEvent(phase, done, total) ==
    [phase |-> phase, fraction |-> Fraction(done, total)]

\* lines 112-121: the keyword list, the custom keyword appended when truthy
keyword_list(sel, custom) ==
    IF custom # <<>> THEN Append(sel, custom) ELSE sel

Init ==
    /\ pc = "Idle"
    /\ selected \in Selections
    /\ custom_keyword \in CustomKeywords
    /\ keywords = <<>>
    /\ i = 0
    /\ response = NoResponse
    /\ all_articles = <<>>
    /\ processed_articles = <<>>
    /\ reply = NoReply
    /\ df = <<>>
    /\ progress = <<>>
    /\ search_log = <<>>
    /\ classify_log = <<>>
    /\ fetch_failed = {}
    /\ classify_failed = {}
    /\ aborted = FALSE

\* variant: no check of the keyword list (lines 125-127 missing)
GetNews_unchecked ==
    /\ pc = "Idle"
    /\ keywords' = keyword_list(selected, custom_keyword)
    /\ pc' = "Fetching"
    /\ UNCHANGED <<selected, custom_keyword, i, response, all_articles,
                   processed_articles, reply, df, progress, search_log,
                   classify_log, fetch_failed, classify_failed, aborted>>

\* lines 112-134: the script run of a click on "Get News" up to the first loop
GetNews ==
    /\ pc = "Idle"
    /\ keywords' = keyword_list(selected, custom_keyword)
    /\ pc' = IF keywords' = <<>> THEN "Returned" ELSE "Fetching"
    /\ UNCHANGED <<selected, custom_keyword, i, response, all_articles,
                   processed_articles, reply, df, progress, search_log,
                   classify_log, fetch_failed, classify_failed, aborted>>

\* lines 135-143: one iteration of the keyword loop; after the last one the
\* article loop is set up
FetchStep(Responses, cap) ==
    /\ pc = "Fetching"
    /\ i < Len(keywords)
    /\ \E resp \in Responses :
         LET keyword == keywords[i + 1]
             articles == search_naver_news(keyword, resp)
         IN  /\ Len(all_articles) + Len(resp.items) <= cap
             /\ response' = resp
             /\ search_log' = Append(search_log, keyword)
             /\ fetch_failed' = IF resp.error THEN fetch_failed \cup {i + 1}
                                ELSE fetch_failed
             /\ IF articles.raised
                THEN /\ aborted' = TRUE
                     /\ pc' = "Aborted"
                     /\ UNCHANGED <<all_articles, progress, i>>
                ELSE /\ all_articles' = all_articles \o articles.value
                     /\ progress' = Append(progress,
                                      ProgressEvent("Fetching", i, Len(keywords)))
                     /\ i' = IF i + 1 = Len(keywords) THEN 0 ELSE i + 1
                     /\ pc' = IF i + 1 = Len(keywords) THEN "Classifying"
                              ELSE "Fetching"
                     /\ UNCHANGED aborted
    /\ UNCHANGED <<selected, custom_keyword, keywords, processed_articles,
                   reply, df, classify_log, classify_failed>>

\* lines 145-155: one iteration of the article loop
ClassifyStep(Replies) ==
    /\ pc = "Classifying"
    /\ i < Len(all_articles)
    /\ \E rep \in Replies :
         LET article == all_articles[i + 1]
             r == get_summary_and_category(article.title, rep)
         IN  /\ reply' = rep
             /\ response' = NoResponse
             /\ classify_log' = Append(classify_log, article.title)
             /\ classify_failed' =
                    IF summary_body(article.title, rep).raised
                    THEN classify_failed \cup {i + 1} ELSE classify_failed
             /\ IF r.raised
                THEN /\ aborted' = TRUE
                     /\ pc' = "Aborted"
                     /\ UNCHANGED <<processed_articles, progress, i>>
                ELSE /\ processed_articles' =
                            Append(processed_articles,
                                   [Category |-> r.value[1],
                                    Media |-> article.media,
                                    Journalist |-> article.journalist,
                                    Synopsis |-> r.value[2]])
                     /\ progress' = Append(progress,
                                      ProgressEvent("Classifying", i, Len(all_articles)))
                     /\ i' = i + 1
                     /\ UNCHANGED <<pc, aborted>>
    /\ UNCHANGED <<selected, custom_keyword, keywords, all_articles,
                   df, search_log, fetch_failed>>

\* line 158: the article loop is over, the DataFrame is built
CreateDataFrame ==
    /\ pc = "Classifying"
    /\ i = Len(all_articles)
    /\ df' = processed_articles
    /\ pc' = "Deduplicating"
    /\ response' = NoResponse
    /\ reply' = NoReply
    /\ UNCHANGED <<selected, custom_keyword, keywords, i, all_articles,
                   processed_articles, progress, search_log, classify_log,
                   fetch_failed, classify_failed, aborted>>

\* lines 159-167: duplicates dropped, the table displayed
DropDuplicates ==
    /\ pc = "Deduplicating"
    /\ df' = drop_duplicates(df)
    /\ pc' = "Done"
    /\ UNCHANGED <<selected, custom_keyword, keywords, i, response,
                   all_articles, processed_articles, reply, progress,
                   search_log, classify_log, fetch_failed, classify_failed,
                   aborted>>

Fetch == FetchStep(RunResponses, MaxArticles)
Classify == ClassifyStep(RunReplies)

Next == GetNews \/ Fetch \/ Classify \/ CreateDataFrame \/ DropDuplicates

Spec == Init /\ [][Next]_vars

\* the script runs to its end once started
FairSpec == Spec /\ WF_vars(Next)

(***************************************************************************)
(* The extractor alone: one keyword, every page of at most MaxPageLen      *)
(* containers.                                                             *)
(***************************************************************************)
InitExtract ==
    /\ pc = "Fetching"
    /\ selected = SubSeq(default_keywords, 1, 1)
    /\ custom_keyword = <<>>
    /\ keywords = keyword_list(selected, custom_keyword)
    /\ i = 0
    /\ response = NoResponse
    /\ all_articles = <<>>
    /\ processed_articles = <<>>
    /\ reply = NoReply
    /\ df = <<>>
    /\ progress = <<>>
    /\ search_log = <<>>
    /\ classify_log = <<>>
    /\ fetch_failed = {}
    /\ classify_failed = {}
    /\ aborted = FALSE

ExtractPage == FetchStep(AllResponses, MaxPageLen)

NextExtract == ExtractPage

SpecExtract == InitExtract /\ [][NextExtract]_vars

(***************************************************************************)
(* The classifier alone: the run after the keyword loop of one keyword,    *)
(* every reply of at most MaxReplyLen chunks.                              *)
(***************************************************************************)
InitClassify ==
    /\ pc = "Classifying"
    /\ selected = SubSeq(default_keywords, 1, 1)
    /\ custom_keyword = <<>>
    /\ keywords = keyword_list(selected, custom_keyword)
    /\ i = 0
    /\ response = Page(<<[news_tit |-> "A", info_a |-> "M1", journalist |-> "J1"],
                          [news_tit |-> "B", info_a |-> "M2", journalist |-> None]>>)
    /\ all_articles = search_naver_news(keywords[1], response).value
    /\ processed_articles = <<>>
    /\ reply = NoReply
    /\ df = <<>>
    /\ progress = <<ProgressEvent("Fetching", 0, 1)>>
    /\ search_log = keywords
    /\ classify_log = <<>>
    /\ fetch_failed = {}
    /\ classify_failed = {}
    /\ aborted = FALSE

ClassifyReply == ClassifyStep(AllReplies)

NextClassify == ClassifyReply \/ CreateDataFrame \/ DropDuplicates

SpecClassify == InitClassify /\ [][NextClassify]_vars

(***************************************************************************)
(* Properties                                                              *)
(***************************************************************************)
Range(f) == {f[k] : k \in DOMAIN f}

\* the first position of rows whose Synopsis is syn
FirstWith(rows, syn) ==
    CHOOSE k \in DOMAIN rows :
        /\ rows[k].Synopsis = syn
        /\ \A m \in 1..(k - 1) : rows[m].Synopsis # syn

Finished == pc = "Done"

\* C1: the ResultTable is the classified sequence without the records whose
\* synopsis equals that of an earlier record: every row is the first
\* classified record of its synopsis, whole; every classified synopsis has a
\* row; no synopsis has two rows; rows keep the classification order.
C1_DedupKeepsFirst ==
    Finished =>
        /\ \A n \in DOMAIN df :
              /\ df[n] \in Range(processed_articles)
              /\ df[n] = processed_articles[FirstWith(processed_articles, df[n].Synopsis)]
        /\ \A r \in Range(processed_articles) :
              \E n \in DOMAIN df : df[n].Synopsis = r.Synopsis
        /\ \A n, m \in DOMAIN df :
              n < m =>
                  /\ df[n].Synopsis # df[m].Synopsis
                  /\ FirstWith(processed_articles, df[n].Synopsis)
                       < FirstWith(processed_articles, df[m].Synopsis)

\* a run in which a later record with another category, media and journalist
\* was dropped for its synopsis, and two rows were kept
C1_Witness ==
    /\ Finished
    /\ Len(df) >= 2
    /\ \E a, b \in DOMAIN processed_articles :
          /\ a < b
          /\ processed_articles[a].Synopsis = processed_articles[b].Synopsis
          /\ processed_articles[a].Category # processed_articles[b].Category
          /\ processed_articles[a].Media # processed_articles[b].Media
          /\ processed_articles[a].Journalist # processed_articles[b].Journalist
          /\ processed_articles[b] \notin Range(df)

\* a container with both its title and its media node
WellFormed(item) == item.news_tit # None /\ item.info_a # None

\* the record of a well-formed container
RecordOf(item, keyword) ==
    [title |-> item.news_tit, media |-> item.info_a,
     journalist |-> IF item.journalist = None THEN "N/A" ELSE item.journalist,
     keyword |-> keyword]

\* C2: a keyword whose fetch raised contributes no record, no exception
\* escapes, the keywords after it are still fetched, and a keyword whose
\* page was fetched and is well formed contributes one record per container.
C2_FetchFailureIsLocal ==
    /\ [][search_log' # search_log =>
            /\ ~aborted'
            /\ pc' \in {"Fetching", "Classifying"}
            /\ response'.error => all_articles' = all_articles
            /\ (~response'.error /\ \A c \in Range(response'.items) : WellFormed(c)) =>
                  all_articles' = all_articles \o
                      [k \in 1..Len(response'.items) |->
                          RecordOf(response'.items[k], keywords[Len(search_log')])]
         ]_vars
    /\ [](pc \in {"Classifying", "Deduplicating", "Done"} =>
            /\ search_log = keywords
            /\ \A a \in Range(all_articles), k \in fetch_failed :
                   a.keyword # keywords[k])

\* the first keyword failed, the second gave one article, one row results
C2_Witness ==
    /\ Finished
    /\ Len(keywords) = 2
    /\ fetch_failed = {1}
    /\ Len(all_articles) = 1
    /\ Len(df) = 1
    /\ ~aborted

\* the records of the well-formed containers of a page, in page order
RECURSIVE WellFormedRecords(_, _)
WellFormedRecords(items, keyword) ==
    IF items = <<>> THEN <<>>
    ELSE (IF WellFormed(Head(items)) THEN <<RecordOf(Head(items), keyword)>> ELSE <<>>)
         \o WellFormedRecords(Tail(items), keyword)

\* C3: a container without title or media node is skipped alone: every
\* well-formed container of the fetched page yields its record.
C3_MalformedContainerSkipped ==
    (search_log # <<>> /\ classify_log = <<>> /\ pc = "Classifying"
        /\ ~response.error) =>
        all_articles = WellFormedRecords(response.items, keywords[1])

HasMarker(rep, marker) == ~rep.error /\ marker \in Range(rep.content)

\* C4: a reply without the Category: marker or without the Synopsis: marker,
\* and a failed model call, give the row category "N/A" with the placeholder
\* synopsis; nothing escapes and every article of the run gets classified.
C4_ClassifierDegrades ==
    /\ ~aborted
    /\ pc # "Aborted"
    /\ Len(processed_articles) = Len(classify_log)
    /\ pc \in {"Deduplicating", "Done"} => Len(classify_log) = Len(all_articles)
    /\ (classify_log # <<>> /\ pc = "Classifying"
          /\ (~HasMarker(reply, CategoryMarker) \/ ~HasMarker(reply, SynopsisMarker))) =>
            /\ processed_articles[Len(processed_articles)].Category = <<"N/A">>
            /\ processed_articles[Len(processed_articles)].Synopsis
                 = <<"Error generating synopsis">>

\* the first classification failed on a reply with only one of the markers
\* and the second article was classified from a formatted reply
C4_Witness ==
    /\ Len(processed_articles) = 2
    /\ processed_articles[1].Category = <<"N/A">>
    /\ processed_articles[2].Category = <<"CIP">>
    /\ processed_articles[2].Synopsis = <<"Same summary.">>
    /\ all_articles[2].title = "B"
    /\ classify_failed = {1}
    /\ pc = "Classifying"
    /\ HasMarker(reply, CategoryMarker) /\ HasMarker(reply, SynopsisMarker)

\* C5: a run with a non-empty keyword list reaches Done, through Classifying
\* and Deduplicating, whatever fails; without articles its table is empty.
C5_RunReachesDone ==
    /\ (pc = "Fetching") ~> (pc = "Done")
    /\ [](~aborted /\ pc # "Aborted")
    /\ [](pc = "Done" /\ all_articles = <<>> => df = <<>>)
    /\ [][(pc' = "Done" /\ pc # "Done") => pc = "Deduplicating"]_vars
    /\ [][(pc' = "Deduplicating" /\ pc # "Deduplicating") => pc = "Classifying"]_vars

\* every fetch failed and the run is Done with an empty table
C5_Witness ==
    /\ Finished
    /\ Len(keywords) = 2
    /\ fetch_failed = {1, 2}
    /\ all_articles = <<>>
    /\ df = <<>>

\* C6: with no selected and no custom keyword the run ends at once: no search
\* request, no classification request.
C6_EmptyKeywordsNoRequests ==
    (pc # "Idle" /\ selected = <<>> /\ custom_keyword = <<>>) =>
        /\ pc = "Returned"
        /\ search_log = <<>>
        /\ classify_log = <<>>
        /\ progress = <<>>

C6_Witness ==
    /\ pc = "Returned"
    /\ selected = <<>>
    /\ custom_keyword = <<>>

EventsOf(phase) == SelectSeq(progress, LAMBDA e : e.phase = phase)

\* x < y for fractions
Less(x, y) == x.num * y.den < y.num * x.den

\* the events of one phase: the k-th has fraction k/total, each lies in
\* (0,1], they strictly increase
PhaseOrdered(events, total) ==
    /\ \A k \in DOMAIN events :
          /\ events[k].fraction.num = k
          /\ events[k].fraction.den = total
          /\ 0 < events[k].fraction.num
          /\ events[k].fraction.num <= events[k].fraction.den
    /\ \A k \in 1..(Len(events) - 1) :
          Less(events[k].fraction, events[k + 1].fraction)

\* C7: one Fetching event after each keyword with fraction k/n, one
\* Classifying event after each article with fraction j/m, Fetching events
\* first, fractions in (0,1], strictly increasing and ending at 1 per phase.
C7_ProgressEvents ==
    LET f == EventsOf("Fetching")
        c == EventsOf("Classifying")
    IN  /\ progress = f \o c
        /\ PhaseOrdered(f, Len(keywords))
        /\ PhaseOrdered(c, Len(all_articles))
        /\ Len(f) = Len(search_log)
        /\ Len(c) = Len(classify_log)
        /\ \A k \in DOMAIN search_log : search_log[k] = keywords[k]
        /\ \A k \in DOMAIN classify_log : classify_log[k] = all_articles[k].title
        /\ pc \in {"Classifying", "Deduplicating", "Done"} =>
              /\ Len(f) = Len(keywords)
              /\ f[Len(f)].fraction.num = f[Len(f)].fraction.den
        /\ pc \in {"Deduplicating", "Done"} =>
              /\ Len(c) = Len(all_articles)
              /\ c # <<>> => c[Len(c)].fraction.num = c[Len(c)].fraction.den

C7_Witness ==
    /\ Finished
    /\ Len(EventsOf("Fetching")) = 2
    /\ Len(EventsOf("Classifying")) = 3

\* C8: dedup is idempotent: applied to the ResultTable it returns it unchanged.
C8_DedupIdempotent ==
    Finished => drop_duplicates(df) = df

\* a table from which dedup had dropped two records
C8_Witness ==
    /\ Finished
    /\ Len(processed_articles) = 3
    /\ Len(df) = 1

\* C9: every keyword searched for is non-empty after trimming.
C9_KeywordsNonEmptyTrimmed ==
    \A k \in DOMAIN search_log : strip(search_log[k]) # <<>>

IsPlaceholder(row) == row.Synopsis = ErrorSynopsis

PlaceholderRows == {n \in DOMAIN df : IsPlaceholder(df[n])}

FirstFailed == CHOOSE k \in classify_failed : \A m \in classify_failed : k <= m

\* C10 as claimed: at most one placeholder row; after a failed classification
\* it carries the media and journalist of the first failed article.
C10_PlaceholderIsFirstFailed ==
    Finished =>
        /\ Cardinality(PlaceholderRows) <= 1
        /\ classify_failed # {} =>
              \E n \in PlaceholderRows :
                  /\ df[n].Media = all_articles[FirstFailed].media
                  /\ df[n].Journalist = all_articles[FirstFailed].journalist

\* C10 amended: at most one placeholder row; after a failed classification it
\* is the first classified record whose synopsis is the placeholder text,
\* which is the first failed article unless an earlier reply was parsed to
\* that very text.
C10_PlaceholderIsFirstWithText ==
    Finished =>
        /\ Cardinality(PlaceholderRows) <= 1
        /\ classify_failed # {} =>
              LET first == FirstWith(processed_articles, ErrorSynopsis) IN
              /\ \E n \in PlaceholderRows : df[n] = processed_articles[first]
              /\ first <= FirstFailed
              /\ first # FirstFailed => first \notin classify_failed
              /\ first = FirstFailed =>
                    \E n \in PlaceholderRows :
                        /\ df[n].Category = ErrorCategory
                        /\ df[n].Media = all_articles[FirstFailed].media
                        /\ df[n].Journalist = all_articles[FirstFailed].journalist

\* two classifications failed, the second and the third, and one placeholder
\* row is left, that of the second article
C10_Witness ==
    /\ Finished
    /\ classify_failed = {2, 3}
    /\ Cardinality(PlaceholderRows) = 1
    /\ Len(df) = 2
    /\ all_articles[2].media # all_articles[3].media
    /\ df[2].Media = all_articles[2].media

====
